---- MODULE Spec2Model ----
(***************************************************************************)
(* A model of src/p.py: parse_and_modify_push_request and its helpers.    *)
(*                                                                         *)
(* Bytes are the integers 0..255, byte strings are sequences of bytes,     *)
(* Python str values are sequences of code points.  A stream (io.BytesIO)  *)
(* is a byte string together with a 0-based read position.                 *)
(*                                                                         *)
(* The library services the program calls are modelled by what they do:    *)
(*   base64   the RFC 4648 alphabet, three bytes per four characters;      *)
(*   UTF-8    the one- to four-byte forms, strict decoding;                *)
(*   zlib     the zlib container (two-byte header, deflate blocks,         *)
(*            Adler-32) restricted to STORED deflate blocks: every stream  *)
(*            the model feeds or emits is what zlib.compress(p, 0) writes. *)
(*            Huffman-coded blocks are outside the model's alphabet;       *)
(*   SHA-1    an abstract 20-byte digest, a deterministic function of the  *)
(*            whole byte string (position- and length-sensitive).          *)
(***************************************************************************)
EXTENDS Integers, Sequences, FiniteSets, TLC

VARIABLES
    given,            \* the call under study: how the arguments were built
    base64_data,      \* argument: the base64 text (code points)
    new_commit_field, \* argument: the replacement text (code points)
    pc,               \* position in the program
    outcome,          \* "running", "ok", or the exception that ended the call
    result,           \* the returned base64 text; None until a return
    binary_data,      \* p.py:19
    pack_start,       \* p.py:23
    metadata,         \* p.py:28
    packfile_data,    \* p.py:29 / the buffer of packfile_stream
    pos,              \* read position of packfile_stream (or of the stream under test)
    modified_packfile,\* p.py:33, the output buffer
    magic,            \* p.py:36
    version,          \* p.py:44
    num_objects,      \* p.py:45
    loop_i,           \* how many iterations of the loop at p.py:52 have completed
    object_type,      \* p.py:53
    object_size,      \* p.py:53
    compressed_data,  \* p.py:54, then p.py:62
    object_data       \* p.py:55, then p.py:59

vars == <<given, base64_data, new_commit_field, pc, outcome, result, binary_data,
          pack_start, metadata, packfile_data, pos, modified_packfile, magic,
          version, num_objects, loop_i, object_type, object_size,
          compressed_data, object_data>>

None == <<"None">>

\* ------------------------------------------------------------------ bounds
\* Most objects in a generated packfile.
MaxObjects == 2
\* Most segments in a generated commit payload (the rewriter's inputs).
MaxSegs == 2
\* The header codec is exercised on every size 0..MaxSize ...
MaxSize == 300
\* ... and on 2^k - 1, 2^k, 2^k + 1 for k up to MaxBits.
MaxBits == 24

\* ------------------------------------------------------- program constants
\* stream.read(8192) in decompress_object
ChunkSize == 8192
\* hashlib.sha1(...).digest() is 20 bytes long
DigestLen == 20

\* b'PACK'
PACK == <<80, 65, 67, 75>>
\* "Commit: "
CommitPrefix == <<67, 111, 109, 109, 105, 116, 58, 32>>
\* "Commit: GitHub <noreply@github.com>"
CommitLiteral ==
    <<67, 111, 109, 109, 105, 116, 58, 32, 71, 105, 116, 72, 117, 98, 32, 60,
      110, 111, 114, 101, 112, 108, 121, 64, 103, 105, 116, 104, 117, 98, 46,
      99, 111, 109, 62>>

\* ------------------------------------------------------------ bit arithmetic
Pow2(k) == 2 ^ k
Shr(x, k) == x \div Pow2(k)
Shl(x, k) == x * Pow2(k)

RECURSIVE BitAnd(_, _)
BitAnd(a, b) ==
    IF a = 0 \/ b = 0 THEN 0
    ELSE (IF (a % 2) = 1 /\ (b % 2) = 1 THEN 1 ELSE 0) + 2 * BitAnd(a \div 2, b \div 2)

RECURSIVE BitOr(_, _)
BitOr(a, b) ==
    IF a = 0 THEN b
    ELSE IF b = 0 THEN a
    ELSE (IF (a % 2) = 1 \/ (b % 2) = 1 THEN 1 ELSE 0) + 2 * BitOr(a \div 2, b \div 2)

\* ------------------------------------------------------------ byte strings
Min(a, b) == IF a < b THEN a ELSE b

\* data[lo:hi] with 0-based, end-exclusive, clamped bounds
Slice(data, lo, hi) == SubSeq(data, lo + 1, Min(hi, Len(data)))

\* stream.read(n): the bytes read, at most n, fewer at the end of the buffer
StreamRead(data, p, n) == Slice(data, p, p + n)

\* does pat occur in data at 0-based offset k
MatchAt(data, pat, k) ==
    /\ k + Len(pat) <= Len(data)
    /\ \A j \in 1..Len(pat) : data[k + j] = pat[j]

\* bytes.find(pat, start): the lowest offset >= start of an occurrence of pat,
\* -1 if there is none
FindFrom(data, pat, start) ==
    LET occ == { k \in start..(Len(data) - Len(pat)) : MatchAt(data, pat, k) } IN
    IF occ = {} THEN -1
    ELSE CHOOSE k \in occ : \A j \in occ : k <= j

\* find, were it to report the offset one too far
find_one_past(data, pat) ==
    LET k == FindFrom(data, pat, 0) IN IF k = -1 THEN -1 ELSE k + 1

find(data, pat) == FindFrom(data, pat, 0)

\* pat in text
Contains(text, pat) == find(text, pat) # -1

\* struct.pack(">I", n)
PackU32(n) ==
    << (Shr(n, 24) % 256), (Shr(n, 16) % 256), (Shr(n, 8) % 256), (n % 256) >>

\* struct.unpack(">I", b)[0]; struct.error unless b is exactly 4 bytes
UnpackU32(b) ==
    IF Len(b) # 4 THEN [ok |-> FALSE, value |-> 0]
    ELSE [ok |-> TRUE,
          value |-> Shl(b[1], 24) + Shl(b[2], 16) + Shl(b[3], 8) + b[4]]

\* the sum of s[lo..hi], by halves
RECURSIVE SeqSum(_, _, _)
SeqSum(s, lo, hi) ==
    IF lo > hi THEN 0
    ELSE IF lo = hi THEN s[lo]
    ELSE LET mid == (lo + hi) \div 2 IN SeqSum(s, lo, mid) + SeqSum(s, mid + 1, hi)

\* the concatenation of the sequences ss[lo..hi], by halves
RECURSIVE Flatten(_, _, _)
Flatten(ss, lo, hi) ==
    IF lo > hi THEN <<>>
    ELSE IF lo = hi THEN ss[lo]
    ELSE LET mid == (lo + hi) \div 2 IN Flatten(ss, lo, mid) \o Flatten(ss, mid + 1, hi)

\* ------------------------------------------------------------------ base64
\* The alphabet of RFC 4648: the character of a 6-bit value ...
B64Char(i) ==
    IF i < 26 THEN 65 + i
    ELSE IF i < 52 THEN 97 + (i - 26)
    ELSE IF i < 62 THEN 48 + (i - 52)
    ELSE IF i = 62 THEN 43
    ELSE 47

\* ... and the 6-bit value of a character, -1 for a character outside it
B64Index(c) ==
    IF c >= 65 /\ c <= 90 THEN c - 65
    ELSE IF c >= 97 /\ c <= 122 THEN c - 97 + 26
    ELSE IF c >= 48 /\ c <= 57 THEN c - 48 + 52
    ELSE IF c = 43 THEN 62
    ELSE IF c = 47 THEN 63
    ELSE -1

B64Pad == 61

\* base64.b64encode(data).decode(): three bytes per four characters, '='
\* padding.  Character j belongs to group (j - 1) \div 4 of three bytes.
b64encode(data) ==
    LET n == Len(data)
        Byte(i) == IF i <= n THEN data[i] ELSE 0
        CharAt(j) ==
            LET g == (j - 1) \div 4
                q == (j - 1) % 4
                b1 == Byte(3 * g + 1)
                b2 == Byte(3 * g + 2)
                b3 == Byte(3 * g + 3)
            IN  IF q = 0 THEN B64Char(Shr(b1, 2))
                ELSE IF q = 1 THEN B64Char(Shl(b1 % 4, 4) + Shr(b2, 4))
                ELSE IF q = 2 THEN
                    IF 3 * g + 2 > n THEN B64Pad
                    ELSE B64Char(Shl(b2 % 16, 2) + Shr(b3, 6))
                ELSE IF 3 * g + 3 > n THEN B64Pad
                ELSE B64Char(b3 % 64)
    IN  IF n = 0 THEN <<>>
        ELSE [j \in 1..(4 * ((n + 2) \div 3)) |-> CharAt(j)]

\* base64.b64decode(text), validate=False.  Characters outside the alphabet
\* are skipped.  Decoding stops at the first '=' that closes a quad: one met
\* with three data characters in the quad, or the second of two met with two.
\* Input that ends inside a quad raises binascii.Error (ok = FALSE).
b64decode(text) ==
    LET sig == SelectSeq(text, LAMBDA c : c = B64Pad \/ B64Index(c) # -1)
        DataBefore(j) == Cardinality({ i \in 1..(j - 1) : sig[i] # B64Pad })
        Closes(j) ==
            /\ sig[j] = B64Pad
            /\ LET q == DataBefore(j) % 4 IN
                \/ q = 3
                \/ q = 2 /\ j > 1 /\ sig[j - 1] = B64Pad
        closing == { j \in 1..Len(sig) : Closes(j) }
        stop == IF closing = {} THEN Len(sig) + 1
                ELSE CHOOSE j \in closing : \A i \in closing : j <= i
        sextets == SelectSeq(SubSeq(sig, 1, stop - 1), LAMBDA c : c # B64Pad)
        D(k) == IF k <= Len(sextets) THEN B64Index(sextets[k]) ELSE 0
        ByteAt(i) ==
            LET g == (i - 1) \div 3
                r == (i - 1) % 3
            IN  IF r = 0 THEN Shl(D(4 * g + 1), 2) + Shr(D(4 * g + 2), 4)
                ELSE IF r = 1 THEN Shl(D(4 * g + 2) % 16, 4) + Shr(D(4 * g + 3), 2)
                ELSE Shl(D(4 * g + 3) % 4, 6) + D(4 * g + 4)
        nbytes == (Len(sextets) * 6) \div 8
    IN  [ok |-> closing # {} \/ (Len(sextets) % 4) = 0,
         data |-> IF nbytes = 0 THEN <<>> ELSE [i \in 1..nbytes |-> ByteAt(i)]]

\* ------------------------------------------------------------------- UTF-8
IsCont(b) == b >= 128 /\ b <= 191

\* how many bytes the form led by b has; 0 when b cannot lead a form
Utf8Width(b) ==
    IF b < 128 THEN 1
    ELSE IF b >= 194 /\ b <= 223 THEN 2
    ELSE IF b >= 224 /\ b <= 239 THEN 3
    ELSE IF b >= 240 /\ b <= 244 THEN 4
    ELSE 0

\* the range the second byte of a form must lie in (no overlong forms, no
\* surrogates, nothing above U+10FFFF)
Utf8SecondLo(b) == IF b = 224 THEN 160 ELSE IF b = 240 THEN 144 ELSE 128
Utf8SecondHi(b) == IF b = 237 THEN 159 ELSE IF b = 244 THEN 143 ELSE 191

\* the code point of the form that starts at b[k]
Utf8CodePoint(b, k) ==
    LET w == Utf8Width(b[k]) IN
    IF w = 1 THEN b[k]
    ELSE IF w = 2 THEN Shl(b[k] % 32, 6) + (b[k + 1] % 64)
    ELSE IF w = 3 THEN
        Shl(b[k] % 16, 12) + Shl(b[k + 1] % 64, 6) + (b[k + 2] % 64)
    ELSE Shl(b[k] % 8, 18) + Shl(b[k + 1] % 64, 12)
         + Shl(b[k + 2] % 64, 6) + (b[k + 3] % 64)

\* is b[k], which is no continuation byte, the start of a well-formed form
Utf8FormOk(b, k) ==
    LET w == Utf8Width(b[k]) IN
    /\ w # 0
    /\ k + w - 1 <= Len(b)
    /\ w >= 2 => /\ b[k + 1] >= Utf8SecondLo(b[k])
                 /\ b[k + 1] <= Utf8SecondHi(b[k])
                 /\ \A j \in 2..(w - 1) : IsCont(b[k + j])

\* is the continuation byte b[j] part of the form of the nearest byte before
\* it that is no continuation byte
Utf8Covered(b, j) ==
    \E k \in 1..(j - 1) :
        /\ ~IsCont(b[k])
        /\ \A i \in (k + 1)..(j - 1) : IsCont(b[i])
        /\ j <= k + Utf8Width(b[k]) - 1

\* bytes.decode("utf-8"), strict: the code points, or UnicodeDecodeError
\* (ok = FALSE).  The bytes are well formed exactly when they split into
\* well-formed forms, whose first bytes are then the bytes that are no
\* continuation bytes.
utf8_decode(b) ==
    LET starts == SelectSeq([k \in 1..Len(b) |-> k], LAMBDA k : ~IsCont(b[k]))
        valid == \A k \in 1..Len(b) :
                    IF IsCont(b[k]) THEN Utf8Covered(b, k) ELSE Utf8FormOk(b, k)
    IN  IF ~valid THEN [ok |-> FALSE, text |-> <<>>]
        ELSE [ok |-> TRUE,
              text |-> [i \in 1..Len(starts) |-> Utf8CodePoint(b, starts[i])]]

\* the UTF-8 form of one code point
Utf8Bytes(c) ==
    IF c < 128 THEN << c >>
    ELSE IF c < 2048 THEN << 192 + Shr(c, 6), 128 + (c % 64) >>
    ELSE IF c < 65536 THEN
        << 224 + Shr(c, 12), 128 + (Shr(c, 6) % 64), 128 + (c % 64) >>
    ELSE << 240 + Shr(c, 18), 128 + (Shr(c, 12) % 64),
            128 + (Shr(c, 6) % 64), 128 + (c % 64) >>

\* str.encode("utf-8")
utf8_encode(text) ==
    Flatten([i \in 1..Len(text) |-> Utf8Bytes(text[i])], 1, Len(text))

\* -------------------------------------------------------------------- zlib
AdlerMod == 65521

\* Adler-32 of data as the pair <<a, b>> (the checksum is b * 65536 + a):
\* a is 1 plus the sum of the bytes, b the sum of the values a takes, byte by
\* byte, both modulo 65521.  Byte i of n enters b n - i + 1 times.
Adler32(data) ==
    LET n == Len(data)
        weighted == [i \in 1..n |-> (n - i + 1) * data[i]]
    IN  << (1 + SeqSum(data, 1, n)) % AdlerMod,
           (n + SeqSum(weighted, 1, n)) % AdlerMod >>

\* the four bytes the checksum is stored in, big-endian
AdlerBytes(data) ==
    LET s == Adler32(data) IN
    << Shr(s[2], 8), (s[2] % 256), Shr(s[1], 8), (s[1] % 256) >>

\* The zlib header: CM = 8 (deflate), CINFO <= 7, no preset dictionary, and
\* CMF * 256 + FLG a multiple of 31.
ZlibHeaderOk(cmf, flg) ==
    /\ (cmf % 16) = 8
    /\ Shr(cmf, 4) <= 7
    /\ (Shr(flg, 5) % 2) = 0
    /\ (cmf * 256 + flg) % 31 = 0

\* Inflate the deflate blocks of a zlib stream from 0-based offset p on; acc is
\* the payload so far.  status "end": the stream is complete, used bytes long;
\* "partial": the input ends inside the stream; "error": the input is no zlib
\* stream (zlib's Z_DATA_ERROR).
RECURSIVE InflateBlocks(_, _, _)
InflateBlocks(data, p, acc) ==
    IF p >= Len(data) THEN [status |-> "partial", out |-> acc, used |-> Len(data)]
    ELSE LET bfinal == (data[p + 1] % 2)
             btype == (Shr(data[p + 1], 1) % 4) IN
        IF btype # 0 THEN [status |-> "error", out |-> acc, used |-> p]
        ELSE IF Len(data) < p + 5 THEN
            [status |-> "partial", out |-> acc, used |-> Len(data)]
        ELSE LET len == data[p + 2] + 256 * data[p + 3]
                 nlen == data[p + 4] + 256 * data[p + 5]
                 q == p + 5 + len IN
            IF len + nlen # 65535 THEN [status |-> "error", out |-> acc, used |-> p]
            ELSE IF Len(data) < q THEN
                [status |-> "partial", out |-> acc \o Slice(data, p + 5, q),
                 used |-> Len(data)]
            ELSE LET acc2 == acc \o Slice(data, p + 5, q) IN
                IF bfinal = 0 THEN InflateBlocks(data, q, acc2)
                ELSE IF Len(data) < q + 4 THEN
                    [status |-> "partial", out |-> acc2, used |-> Len(data)]
                ELSE IF Slice(data, q, q + 4) # AdlerBytes(acc2) THEN
                    [status |-> "error", out |-> acc2, used |-> q]
                ELSE [status |-> "end", out |-> acc2, used |-> q + 4]

Inflate(data) ==
    IF Len(data) < 2 THEN [status |-> "partial", out |-> <<>>, used |-> Len(data)]
    ELSE IF ~ZlibHeaderOk(data[1], data[2]) THEN
        [status |-> "error", out |-> <<>>, used |-> 0]
    ELSE InflateBlocks(data, 2, <<>>)

\* decompression that takes an incomplete stream for a complete one, as
\* decompressobj().decompress(data) does
zlib_decompress_lenient(data) ==
    LET r == Inflate(data) IN [ok |-> r.status # "error", data |-> r.out]

\* zlib.decompress(data): the payload of the stream data begins with (bytes
\* after the end of the stream are ignored); zlib.error when the stream is
\* incomplete or invalid.
zlib_decompress(data) ==
    LET r == Inflate(data) IN
    [ok |-> r.status = "end", data |-> IF r.status = "end" THEN r.out ELSE <<>>]

\* decompressobj().decompress(chunk), where fed is everything passed to the
\* object so far, chunk included: zlib.error exactly when the input is no zlib
\* stream.  An incomplete stream is no error, and bytes after the end of the
\* stream go to unused_data without error.
DecompressRaises(fed) == Inflate(fed).status = "error"

\* zlib.compress(payload): a zlib stream of the payload (one stored block)
zlib_compress(payload) ==
    LET n == Len(payload) IN
    << 120, 1, 1, (n % 256), Shr(n, 8), (65535 - n) % 256, Shr(65535 - n, 8) >>
    \o payload \o AdlerBytes(payload)

\* ------------------------------------------------------------------- SHA-1
\* hashlib.sha1(data).digest(), abstracted: a 20-byte value that depends on
\* every byte of data, on its position and on the length.
\* the digest, were it taken over the objects alone, without the 12-byte header
calculate_checksum(data) ==
    LET n == Len(data)
        h1 == (n + 1 + SeqSum([i \in 1..n |-> i * (data[i] + 1)], 1, n)) % AdlerMod
        h2 == (SeqSum([i \in 1..n |-> (((i * i) % 251) + 1) * (data[i] + 1)], 1, n))
              % AdlerMod
    IN  [k \in 1..DigestLen |-> ((h1 + k) * (2 * k + 1) + Shr(h2, k % 8)) % 256]

\* The trailer of the output (p.py:69): the digest of the whole output buffer,
\* the 12 bytes of its header included.
checksum_of_objects(buffer) == calculate_checksum(Slice(buffer, 12, Len(buffer)))

checksum(buffer) == calculate_checksum(buffer)

\* ------------------------------------------------------ the helpers of p.py
\* The loop of parse_object_header (p.py:88-91): first_byte is the byte read
\* last.  ord(stream.read(1)) raises TypeError at the end of the buffer.
RECURSIVE ParseHeaderLoop(_, _, _, _, _, _)
ParseHeaderLoop(data, p, first_byte, ty, size, shift) ==
    IF BitAnd(first_byte, 128) = 0 THEN
        [ok |-> TRUE, object_type |-> ty, size |-> size, pos |-> p]
    ELSE LET b == StreamRead(data, p, 1) IN
        IF Len(b) = 0 THEN [ok |-> FALSE, object_type |-> ty, size |-> size, pos |-> p]
        ELSE ParseHeaderLoop(data, p + 1, b[1], ty,
                             BitOr(size, Shl(BitAnd(b[1], 127), shift)), shift + 7)

\* parse_object_header(stream), the stream being data read from position p on:
\* the type, the size and the position after the header; ok = FALSE: TypeError.
parse_object_header(data, p) ==
    LET b == StreamRead(data, p, 1) IN
    IF Len(b) = 0 THEN [ok |-> FALSE, object_type |-> 0, size |-> 0, pos |-> p]
    ELSE ParseHeaderLoop(data, p + 1, b[1],
                         BitAnd(Shr(b[1], 4), 7), BitAnd(b[1], 15), 4)

\* The loop of write_object_header (p.py:133-139): header is the byte to write
\* next, size what is left of the size.
RECURSIVE WriteHeaderLoop(_, _, _)
WriteHeaderLoop(stream, header, size) ==
    IF size # 0 THEN
        WriteHeaderLoop(Append(stream, BitOr(header, 128)),
                        BitAnd(size, 127), Shr(size, 7))
    ELSE Append(stream, header)

\* write_object_header, were the first byte to take seven bits of the size
\* like the bytes after it
write_object_header_shift7(stream, ty, size) ==
    WriteHeaderLoop(stream, BitOr(Shl(ty, 4), BitAnd(size, 15)), Shr(size, 7))

\* write_object_header(stream, object_type, size): the stream afterwards
write_object_header(stream, ty, size) ==
    WriteHeaderLoop(stream, BitOr(Shl(ty, 4), BitAnd(size, 15)), Shr(size, 4))

\* The loop of decompress_object (p.py:103-111): acc is compressed_data, which is
\* also everything the decompressor has been fed.
RECURSIVE ScanLoop(_, _, _)
ScanLoop(data, p, acc) ==
    LET chunk == StreamRead(data, p, ChunkSize) IN
    IF Len(chunk) = 0 THEN [data |-> acc, pos |-> p]
    ELSE IF DecompressRaises(acc \o chunk) THEN
        [data |-> acc \o chunk, pos |-> p + Len(chunk)]
    ELSE ScanLoop(data, p + Len(chunk), acc \o chunk)

\* decompress_object(stream): the bytes returned and the position afterwards
decompress_object(data, p) == ScanLoop(data, p, <<>>)

\* str.replace(old, new): every occurrence of old, found left to right without
\* overlap, becomes new.  k is where the search goes on.
RECURSIVE ReplaceFrom(_, _, _, _)
ReplaceFrom(text, old, new, k) ==
    LET m == FindFrom(text, old, k) IN
    IF m = -1 THEN Slice(text, k, Len(text))
    ELSE Slice(text, k, m) \o new \o ReplaceFrom(text, old, new, m + Len(old))

\* str.replace(old, new, 1): the first occurrence only
str_replace_first(text, old, new) ==
    LET m == FindFrom(text, old, 0) IN
    IF m = -1 THEN text
    ELSE Slice(text, 0, m) \o new \o Slice(text, m + Len(old), Len(text))

str_replace(text, old, new) == ReplaceFrom(text, old, new, 0)

\* modify_commit_object(object_data, new_commit_field); ok = FALSE:
\* UnicodeDecodeError
modify_commit_object(data, field) ==
    LET d == utf8_decode(data) IN
    IF ~d.ok THEN [ok |-> FALSE, data |-> <<>>]
    ELSE [ok |-> TRUE,
          data |-> utf8_encode(
              IF Contains(d.text, CommitPrefix)
              THEN str_replace(d.text, CommitLiteral, CommitPrefix \o field)
              ELSE d.text)]

\* ------------------------------------------------ parse_and_modify_push_request
\* the test, were it to look at the low bit of the type only
IsCommit_low_bit(ty) == (ty % 2) = 1

\* p.py:58  if object_type == 1: the object is a commit
IsCommit(ty) == ty = 1

\* the size written, were it the size the old header declared
EmittedSize_declared(declared, data) == declared

\* p.py:65  the size written to the new header: len(object_data), whatever the
\* size the old header declared
EmittedSize(declared, data) == Len(data)

\* the request, were the metadata left out
Reassemble_without_metadata(meta, pack) == pack

\* p.py:73  modified_request = metadata + modified_packfile.getvalue()
Reassemble(meta, pack) == meta \o pack

\* The call ends with an exception: nothing is returned.
Raise(exc) ==
    /\ outcome' = exc
    /\ pc' = "done"
    /\ result' = None

args == <<given, base64_data, new_commit_field>>

\* p.py:19  binary_data = base64.b64decode(base64_data)
DecodeRequest ==
    /\ pc = "decode"
    /\ LET d == b64decode(base64_data) IN
        IF ~d.ok THEN
            /\ Raise("binascii.Error")
            /\ UNCHANGED binary_data
        ELSE
            /\ binary_data' = d.data
            /\ pc' = "locate"
            /\ UNCHANGED <<outcome, result>>
    /\ UNCHANGED <<args, pack_start, metadata, packfile_data, pos,
                   modified_packfile, magic, version, num_objects, loop_i,
                   object_type, object_size, compressed_data, object_data>>

\* p.py:23-33  find the marker, split the metadata from the PACK data, open the
\* two streams
LocatePack ==
    /\ pc = "locate"
    /\ pack_start' = find(binary_data, PACK)
    /\ IF pack_start' = -1 THEN
            /\ Raise("ValueError: PACK section not found in the push request")
            /\ UNCHANGED <<metadata, packfile_data, pos, modified_packfile>>
       ELSE
            /\ metadata' = Slice(binary_data, 0, pack_start')
            /\ packfile_data' = Slice(binary_data, pack_start', Len(binary_data))
            /\ pos' = 0
            /\ modified_packfile' = <<>>
            /\ pc' = "magic"
            /\ UNCHANGED <<outcome, result>>
    /\ UNCHANGED <<args, binary_data, magic, version, num_objects, loop_i,
                   object_type, object_size, compressed_data, object_data>>

\* p.py:36-41  read the magic, check it, write it
ReadMagic ==
    /\ pc = "magic"
    /\ magic' = StreamRead(packfile_data, pos, 4)
    /\ pos' = pos + Len(magic')
    /\ IF magic' # PACK THEN
            /\ Raise("ValueError: Invalid PACK file format")
            /\ UNCHANGED modified_packfile
       ELSE
            /\ modified_packfile' = modified_packfile \o magic'
            /\ pc' = "counts"
            /\ UNCHANGED <<outcome, result>>
    /\ UNCHANGED <<args, binary_data, pack_start, metadata, packfile_data,
                   version, num_objects, loop_i, object_type, object_size,
                   compressed_data, object_data>>

\* p.py:44-47  read the version and the number of objects (struct.error when
\* fewer than 4 bytes are left for either), write both
ReadCounts ==
    /\ pc = "counts"
    /\ LET vb == StreamRead(packfile_data, pos, 4)
           v == UnpackU32(vb)
           nb == StreamRead(packfile_data, pos + Len(vb), 4)
           n == UnpackU32(nb) IN
        IF ~v.ok THEN
            /\ Raise("struct.error")
            /\ pos' = pos + Len(vb)
            /\ UNCHANGED <<version, num_objects, modified_packfile, loop_i>>
        ELSE IF ~n.ok THEN
            /\ Raise("struct.error")
            /\ pos' = pos + Len(vb) + Len(nb)
            /\ version' = v.value
            /\ UNCHANGED <<num_objects, modified_packfile, loop_i>>
        ELSE
            /\ version' = v.value
            /\ num_objects' = n.value
            /\ pos' = pos + 8
            /\ modified_packfile' =
                   modified_packfile \o PackU32(v.value) \o PackU32(n.value)
            /\ loop_i' = 0
            /\ pc' = "loop"
            /\ UNCHANGED <<outcome, result>>
    /\ UNCHANGED <<args, binary_data, pack_start, metadata, packfile_data,
                   magic, object_type, object_size, compressed_data, object_data>>

\* p.py:52-53  one more object: parse its header
ParseHeader ==
    /\ pc = "loop"
    /\ loop_i < num_objects
    /\ LET h == parse_object_header(packfile_data, pos) IN
        /\ pos' = h.pos
        /\ IF ~h.ok THEN
                /\ Raise("TypeError")
                /\ UNCHANGED <<object_type, object_size>>
           ELSE
                /\ object_type' = h.object_type
                /\ object_size' = h.size
                /\ pc' = "scan"
                /\ UNCHANGED <<outcome, result>>
    /\ UNCHANGED <<args, binary_data, pack_start, metadata, packfile_data,
                   modified_packfile, magic, version, num_objects, loop_i,
                   compressed_data, object_data>>

\* p.py:54  compressed_data = decompress_object(packfile_stream)
ScanBody ==
    /\ pc = "scan"
    /\ LET r == decompress_object(packfile_data, pos) IN
        /\ compressed_data' = r.data
        /\ pos' = r.pos
    /\ pc' = "inflate"
    /\ UNCHANGED <<args, outcome, result, binary_data, pack_start, metadata,
                   packfile_data, modified_packfile, magic, version, num_objects,
                   loop_i, object_type, object_size, object_data>>

\* p.py:55  object_data = zlib.decompress(compressed_data)
InflateBody ==
    /\ pc = "inflate"
    /\ LET r == zlib_decompress(compressed_data) IN
        IF ~r.ok THEN
            /\ Raise("zlib.error")
            /\ UNCHANGED object_data
        ELSE
            /\ object_data' = r.data
            /\ pc' = "modify"
            /\ UNCHANGED <<outcome, result>>
    /\ UNCHANGED <<args, binary_data, pack_start, metadata, packfile_data, pos,
                   modified_packfile, magic, version, num_objects, loop_i,
                   object_type, object_size, compressed_data>>

\* p.py:58-59  a commit object is rewritten, any other is left alone
ModifyObject ==
    /\ pc = "modify"
    /\ IF IsCommit(object_type) THEN
            LET m == modify_commit_object(object_data, new_commit_field) IN
            IF ~m.ok THEN
                /\ Raise("UnicodeDecodeError")
                /\ UNCHANGED object_data
            ELSE
                /\ object_data' = m.data
                /\ pc' = "emit"
                /\ UNCHANGED <<outcome, result>>
       ELSE
            /\ pc' = "emit"
            /\ UNCHANGED <<object_data, outcome, result>>
    /\ UNCHANGED <<args, binary_data, pack_start, metadata, packfile_data, pos,
                   modified_packfile, magic, version, num_objects, loop_i,
                   object_type, object_size, compressed_data>>

\* p.py:62-66  recompress, write the header and the body; the iteration is over
EmitObject ==
    /\ pc = "emit"
    /\ compressed_data' = zlib_compress(object_data)
    /\ modified_packfile' =
           write_object_header(modified_packfile, object_type,
                               EmittedSize(object_size, object_data))
           \o compressed_data'
    /\ loop_i' = loop_i + 1
    /\ pc' = "loop"
    /\ UNCHANGED <<args, outcome, result, binary_data, pack_start, metadata,
                   packfile_data, pos, magic, version, num_objects, object_type,
                   object_size, object_data>>

\* p.py:69-76  after the loop: the checksum, the reassembled request, base64
Finalize ==
    /\ pc = "loop"
    /\ loop_i >= num_objects
    /\ modified_packfile' =
           modified_packfile \o checksum(modified_packfile)
    /\ result' = b64encode(Reassemble(metadata, modified_packfile'))
    /\ outcome' = "ok"
    /\ pc' = "done"
    /\ UNCHANGED <<args, binary_data, pack_start, metadata, packfile_data, pos,
                   magic, version, num_objects, loop_i, object_type, object_size,
                   compressed_data, object_data>>

Next ==
    \/ DecodeRequest
    \/ LocatePack
    \/ ReadMagic
    \/ ReadCounts
    \/ ParseHeader
    \/ ScanBody
    \/ InflateBody
    \/ ModifyObject
    \/ EmitObject
    \/ Finalize

\* ------------------------------------------------------------ the requests
\* One object of a generated packfile: its type tag, its payload and the size
\* its header declares.
Object(ty, payload, declared) ==
    [type |-> ty, payload |-> payload, declared |-> declared]

\* the object as it lies in a packfile: the header, then the zlib stream
ObjectBytes(o) ==
    write_object_header(<<>>, o.type, o.declared) \o zlib_compress(o.payload)

RECURSIVE ObjectsBytes(_, _)
ObjectsBytes(objs, k) ==
    IF k > Len(objs) THEN <<>>
    ELSE ObjectBytes(objs[k]) \o ObjectsBytes(objs, k + 1)

\* the packfile of the objects: marker, version 2, count, objects, trailer
PackBody(objs) ==
    PACK \o PackU32(2) \o PackU32(Len(objs)) \o ObjectsBytes(objs, 1)

PackBytes(objs) == PackBody(objs) \o calculate_checksum(PackBody(objs))

\* payloads: empty; the literal alone; the literal inside a commit text; the
\* literal twice, after a two-byte character; "Commit: x" (the guard of
\* p.py:121 holds, the literal is absent); a byte that is no UTF-8
Payloads ==
    { <<>>,
      CommitLiteral,
      <<116, 10>> \o CommitLiteral \o <<10, 10, 109>>,
      <<195, 169>> \o CommitLiteral \o CommitLiteral,
      CommitPrefix \o <<120>>,
      <<255>> }

\* 1 = commit, 2 = tree, 3 = blob
FirstObjects ==
    { Object(ty, p, d) : ty \in {1, 3}, p \in Payloads, d \in {0, 2100} }
    \cup { Object(ty, p, Len(p)) : ty \in {1, 2, 3}, p \in Payloads }

TailObjects == { Object(3, <<116>>, 1), Object(1, CommitLiteral, Len(CommitLiteral)) }

ObjectLists ==
    { <<>> } \cup
    UNION { { <<f>> \o t : f \in FirstObjects, t \in [1..(n - 1) -> TailObjects] }
            : n \in 1..MaxObjects }

\* the ref-update lines before the marker; the second ends in a near miss
Metadatas == { <<>>, <<48, 48, 80, 65, 67, 32>> }

\* "Al", and "é <"
Replacements == { <<65, 108>>, <<233, 32, 60>> }

\* Where a request may be cut short, as a number of bytes of the packfile that
\* are kept: inside the version, inside the count, and around the first object
\* (at its header, inside its header, at and inside its body, at the header of
\* the next object); always before the end of the last object.
CutPoints(objs) ==
    LET end == Len(PackBody(objs))
        h1 == Len(write_object_header(<<>>, objs[1].type, objs[1].declared))
        c1 == Len(zlib_compress(objs[1].payload))
        around == IF Len(objs) = 0 THEN {}
                  ELSE {12, 13, 12 + h1, 12 + h1 + 3, 12 + h1 + c1 - 1,
                        12 + h1 + c1, 12 + h1 + c1 + 1}
    IN  { k \in {5, 9} \cup around : k < end }

Damages(objs) ==
    { [kind |-> "none", keep |-> 0], [kind |-> "nomarker", keep |-> 0] }
    \cup { [kind |-> "cut", keep |-> k] : k \in CutPoints(objs) }

\* the bytes of a request: the metadata, then the packfile, whole or damaged
RequestBytes(meta, objs, dmg) ==
    LET pack == PackBytes(objs) IN
    meta \o ( IF dmg.kind = "none" THEN pack
              ELSE IF dmg.kind = "nomarker"
                   THEN <<80, 65, 67, 88>> \o Slice(pack, 4, Len(pack))
              ELSE Slice(pack, 0, dmg.keep) )

\* Nothing has run yet: no outcome, no result, the locals unset.
Fresh ==
    /\ outcome = "running"
    /\ result = None
    /\ binary_data = <<>>
    /\ pack_start = 0
    /\ metadata = <<>>
    /\ packfile_data = <<>>
    /\ pos = 0
    /\ modified_packfile = <<>>
    /\ magic = <<>>
    /\ version = 0
    /\ num_objects = 0
    /\ loop_i = 0
    /\ object_type = 0
    /\ object_size = 0
    /\ compressed_data = <<>>

\* The state in which parse_and_modify_push_request is entered.
Init ==
    \E meta \in Metadatas, objs \in ObjectLists, r \in Replacements :
      \E dmg \in Damages(objs) :
        /\ given = [call |-> "transform", metadata |-> meta, objects |-> objs,
                    damage |-> dmg]
        /\ base64_data = b64encode(RequestBytes(meta, objs, dmg))
        /\ new_commit_field = r
        /\ pc = "decode"
        /\ object_data = <<>>
        /\ Fresh

Spec == Init /\ [][Next]_vars

\* ------------------------------------------------ modify_commit_object alone
\* The pieces a commit payload is assembled from: the literal, its prefix
\* "Commit: " (the guard of p.py:121 without the literal), a two-byte
\* character, a byte that is no UTF-8, a line feed.  No concatenation of
\* pieces holds the literal except where a piece is the literal.
Segments == { CommitLiteral, CommitPrefix, <<195, 169>>, <<255>>, <<10>> }

SegmentLists == UNION { [1..n -> Segments] : n \in 0..MaxSegs }

\* new_commit_field values, each with its UTF-8 bytes: "Al"; "é <"; the text
\* the literal already holds; the literal itself
Fields ==
    { [text |-> <<65, 108>>, bytes |-> <<65, 108>>],
      [text |-> <<233, 32, 60>>, bytes |-> <<195, 169, 32, 60>>],
      [text |-> SubSeq(CommitLiteral, 9, 35), bytes |-> SubSeq(CommitLiteral, 9, 35)],
      [text |-> CommitLiteral, bytes |-> CommitLiteral] }

InitRewrite ==
    \E segs \in SegmentLists, f \in Fields :
        /\ given = [call |-> "rewrite", segments |-> segs, field |-> f]
        /\ base64_data = <<>>
        /\ new_commit_field = f.text
        /\ object_data = Flatten(segs, 1, Len(segs))
        /\ pc = "rewrite"
        /\ Fresh

\* object_data = modify_commit_object(object_data, new_commit_field)
RewriteCall ==
    /\ pc = "rewrite"
    /\ LET m == modify_commit_object(object_data, new_commit_field) IN
        IF ~m.ok THEN
            /\ Raise("UnicodeDecodeError")
            /\ UNCHANGED object_data
        ELSE
            /\ object_data' = m.data
            /\ outcome' = "ok"
            /\ pc' = "done"
            /\ UNCHANGED result
    /\ UNCHANGED <<args, binary_data, pack_start, metadata, packfile_data, pos,
                   modified_packfile, magic, version, num_objects, loop_i,
                   object_type, object_size, compressed_data>>

NextRewrite == RewriteCall

SpecRewrite == InitRewrite /\ [][NextRewrite]_vars

\* ------------------------------------ write_object_header, parse_object_header
\* the sizes: all the small ones, and the neighbours of the powers of two
Sizes ==
    (0..MaxSize) \cup { Pow2(k) + d : k \in 1..MaxBits, d \in {-1, 0, 1} }

\* what follows the header in the stream: nothing, or a byte with the
\* continuation bit set
Followers == { <<>>, <<255>> }

InitCodec ==
    \E ty \in 0..7, size \in Sizes, nxt \in Followers :
        /\ given = [call |-> "codec", type |-> ty, size |-> size, follower |-> nxt]
        /\ base64_data = <<>>
        /\ new_commit_field = <<>>
        /\ object_data = <<>>
        /\ pc = "write_header"
        /\ Fresh

\* write_object_header(modified_packfile, type, size)
WriteHeader ==
    /\ pc = "write_header"
    /\ modified_packfile' =
           write_object_header(modified_packfile, given.type, given.size)
    /\ pc' = "read_header"
    /\ UNCHANGED <<args, outcome, result, binary_data, pack_start, metadata,
                   packfile_data, pos, magic, version, num_objects, loop_i,
                   object_type, object_size, compressed_data, object_data>>

\* parse_object_header on a stream that holds what was written and what follows
ReadHeader ==
    /\ pc = "read_header"
    /\ packfile_data' = modified_packfile \o given.follower
    /\ LET h == parse_object_header(packfile_data', 0) IN
        /\ pos' = h.pos
        /\ IF ~h.ok THEN
                /\ Raise("TypeError")
                /\ UNCHANGED <<object_type, object_size>>
           ELSE
                /\ object_type' = h.object_type
                /\ object_size' = h.size
                /\ outcome' = "ok"
                /\ pc' = "done"
                /\ UNCHANGED result
    /\ UNCHANGED <<args, binary_data, pack_start, metadata, modified_packfile,
                   magic, version, num_objects, loop_i, compressed_data,
                   object_data>>

NextCodec == WriteHeader \/ ReadHeader

SpecCodec == InitCodec /\ [][NextCodec]_vars

\* ---------------------------------------------------------------- properties
\* A reader that takes each object as the packfile format defines it: the
\* header, then exactly the bytes of one zlib stream.
ReadObject(buf, p) ==
    LET h == parse_object_header(buf, p)
        z == Inflate(Slice(buf, h.pos, Len(buf)))
    IN  [ok |-> h.ok /\ z.status = "end", type |-> h.object_type,
         size |-> h.size, payload |-> z.out, end |-> h.pos + z.used]

\* n objects read from offset p on: the objects, whether all n were there, and
\* the offset after the last
RECURSIVE ReadObjects(_, _, _)
ReadObjects(buf, p, n) ==
    IF n = 0 THEN [ok |-> TRUE, objects |-> <<>>, end |-> p]
    ELSE LET o == ReadObject(buf, p) IN
        IF ~o.ok THEN [ok |-> FALSE, objects |-> <<>>, end |-> p]
        ELSE LET rest == ReadObjects(buf, o.end, n - 1) IN
            [ok |-> rest.ok, objects |-> <<o>> \o rest.objects, end |-> rest.end]

\* the objects in the output buffer so far, one for each completed iteration
Emitted == ReadObjects(modified_packfile, 12, loop_i)

\* the length of the first k objects of a packfile
ObjectsLen(objs, k) == SeqSum([i \in 1..k |-> Len(ObjectBytes(objs[i]))], 1, k)

Transforming == given.call = "transform"

\* The request holds a well-formed packfile: nothing is cut or overwritten,
\* every header declares the length of its payload, every commit is UTF-8.
WellFormed ==
    /\ Transforming
    /\ given.damage.kind = "none"
    /\ \A k \in 1..Len(given.objects) :
        /\ given.objects[k].declared = Len(given.objects[k].payload)
        /\ given.objects[k].type = 1 => utf8_decode(given.objects[k].payload).ok

HasMarker(data) == \E k \in 0..(Len(data) - 4) : MatchAt(data, PACK, k)

MarkerNotFound == "ValueError: PACK section not found in the push request"
InvalidMagic == "ValueError: Invalid PACK file format"

\* C1: on a well-formed packfile, when decompress_object has run on an object's
\* body the stream is positioned right after that object's compressed bytes
\* (on the next object's header, or on the trailer), and the next
\* parse_object_header does not fail.
C1_ScannerStopsAtObjectEnd ==
    WellFormed =>
        /\ pc = "inflate" => pos = 12 + ObjectsLen(given.objects, loop_i + 1)
        /\ outcome # "TypeError"

\* C2: on a well-formed packfile declaring N objects the call succeeds, the
\* loop runs N times, and what is left unread of the input is the 20-byte
\* trailer.
C2_ConsumesExactlyTheObjects ==
    (WellFormed /\ pc = "done") =>
        /\ outcome = "ok"
        /\ loop_i = Len(given.objects)
        /\ Slice(packfile_data, pos, Len(packfile_data))
               = calculate_checksum(PackBody(given.objects))

\* C3: when the call returns, the last 20 bytes of the decoded output are the
\* digest of the bytes of the output from the marker up to those 20 bytes.
C3_TrailerIsDigestOfOutput ==
    (Transforming /\ outcome = "ok") =>
        LET out == b64decode(result).data
            m == Len(given.metadata)
            n == Len(out)
        IN  /\ n >= m + 12 + DigestLen
            /\ MatchAt(out, PACK, m)
            /\ Slice(out, n - DigestLen, n)
                   = calculate_checksum(Slice(out, m, n - DigestLen))

\* a commit was rewritten behind some metadata, and the call returned
C3_Witness ==
    /\ Transforming /\ outcome = "ok" /\ loop_i = 1
    /\ given.metadata # <<>>
    /\ object_data # given.objects[1].payload

RewritePayload == Flatten(given.segments, 1, Len(given.segments))

RewriteHasLiteral == \E i \in 1..Len(given.segments) : given.segments[i] = CommitLiteral

RewriteIsText == \A i \in 1..Len(given.segments) : given.segments[i] # <<255>>

\* the payload with every piece that is the literal replaced
RewriteEveryLiteral ==
    Flatten([i \in 1..Len(given.segments) |->
                IF given.segments[i] = CommitLiteral
                THEN CommitPrefix \o given.field.bytes
                ELSE given.segments[i]],
            1, Len(given.segments))

\* C4 as claimed: for a payload (UTF-8 text) that holds the literal, once or
\* more often, modify_commit_object returns the payload with one occurrence of
\* the literal replaced by "Commit: " + r and every other byte as it was.
C4_ReplacedExactlyOnce ==
    (given.call = "rewrite" /\ pc = "done" /\ RewriteHasLiteral /\ RewriteIsText) =>
        /\ outcome = "ok"
        /\ \E k \in 0..Len(RewritePayload) :
            /\ MatchAt(RewritePayload, CommitLiteral, k)
            /\ object_data =
                   Slice(RewritePayload, 0, k) \o CommitPrefix \o given.field.bytes
                   \o Slice(RewritePayload, k + Len(CommitLiteral), Len(RewritePayload))

\* C4, amended: for a UTF-8 payload that holds the literal,
\* modify_commit_object returns the payload with every occurrence of the
\* literal replaced by "Commit: " + r and every other byte as it was.
C4_EveryOccurrenceReplaced ==
    (given.call = "rewrite" /\ pc = "done" /\ RewriteHasLiteral /\ RewriteIsText) =>
        /\ outcome = "ok"
        /\ object_data = RewriteEveryLiteral

\* a payload with the literal twice has been rewritten with "Al"
C4_Witness ==
    /\ given.call = "rewrite" /\ pc = "done" /\ outcome = "ok"
    /\ Cardinality({ i \in 1..Len(given.segments) : given.segments[i] = CommitLiteral }) = 2
    /\ given.field.text = <<65, 108>>

\* C5: parse_object_header on the bytes write_object_header(type, size) wrote
\* returns that type and size and stops right after the bytes written.
C5_DecodeInvertsEncode ==
    (given.call = "codec" /\ pc = "done") =>
        /\ outcome = "ok"
        /\ object_type = given.type
        /\ object_size = given.size
        /\ pos = Len(modified_packfile)

\* a header of four bytes, type 7, was read back with a byte following it
C5_Witness ==
    /\ given.call = "codec" /\ pc = "done"
    /\ given.type = 7 /\ given.size >= Pow2(18)
    /\ Len(modified_packfile) = 4
    /\ given.follower # <<>>

\* C6: an emitted payload differs from the payload of the input object only if
\* the object is a commit whose payload holds the literal (so every other
\* object and every commit without the literal comes out byte for byte), and
\* UnicodeDecodeError is raised only for a commit that is not UTF-8.
C6_OnlyCommitsWithLiteralChange ==
    Transforming =>
        /\ Emitted.ok
        /\ \A k \in 1..loop_i :
            Emitted.objects[k].payload # given.objects[k].payload
                => /\ given.objects[k].type = 1
                   /\ Contains(given.objects[k].payload, CommitLiteral)
        /\ pc = "emit" /\ object_data # given.objects[loop_i + 1].payload
                => /\ given.objects[loop_i + 1].type = 1
                   /\ Contains(given.objects[loop_i + 1].payload, CommitLiteral)
        /\ outcome = "UnicodeDecodeError"
                => /\ given.objects[loop_i + 1].type = 1
                   /\ ~utf8_decode(given.objects[loop_i + 1].payload).ok

\* a commit that holds "Commit: " but not the literal has been emitted
C6_Witness ==
    /\ Transforming /\ loop_i = 1
    /\ given.objects[1].type = 1
    /\ Contains(given.objects[1].payload, CommitPrefix)
    /\ ~Contains(given.objects[1].payload, CommitLiteral)
    /\ Emitted.objects[1].payload = given.objects[1].payload

\* C7: when the call returns, the decoded output is the input bytes before the
\* first occurrence of the marker, followed by the rewritten container, which
\* starts with the marker.
C7_MetadataPassedThrough ==
    (Transforming /\ outcome = "ok") =>
        LET inp == b64decode(base64_data).data
            out == b64decode(result).data
        IN  \E k \in 0..Len(inp) :
                /\ MatchAt(inp, PACK, k)
                /\ \A j \in 0..(k - 1) : ~MatchAt(inp, PACK, j)
                /\ Slice(out, 0, k) = Slice(inp, 0, k)
                /\ MatchAt(out, PACK, k)
                /\ Slice(out, k, Len(out)) = modified_packfile

\* the call returned for a request with metadata and one object
C7_Witness ==
    /\ Transforming /\ outcome = "ok" /\ loop_i = 1
    /\ given.metadata # <<>>
    /\ Len(b64decode(result).data) > Len(given.metadata)

\* would the request d end with the error of p.py:38: the marker is found and
\* the four bytes read at its offset are not the marker
RaisesInvalidMagic(d) ==
    LET k == find(d, PACK) IN
    /\ k # -1
    /\ StreamRead(Slice(d, k, Len(d)), 0, 4) # PACK

\* C8 as claimed: a request without the marker fails with MarkerNotFound and no
\* output, and some request fails with InvalidMagic.
C8_BothErrorsArise ==
    /\ (Transforming /\ pc = "done" /\ ~HasMarker(binary_data))
            => outcome = MarkerNotFound /\ result = None
    /\ \E meta \in Metadatas, objs \in ObjectLists :
         \E dmg \in Damages(objs) : RaisesInvalidMagic(RequestBytes(meta, objs, dmg))

\* C8, amended: a request without the marker fails with MarkerNotFound and no
\* output; a request with the marker never fails with MarkerNotFound; and no
\* request fails with InvalidMagic, the four bytes read back at the offset
\* found being the marker always.
C8_InvalidMagicNeverArises ==
    Transforming =>
        /\ (pc = "done" /\ ~HasMarker(binary_data))
                => outcome = MarkerNotFound /\ result = None
        /\ outcome = MarkerNotFound => ~HasMarker(binary_data)
        /\ outcome # InvalidMagic
        /\ pc \notin {"decode", "locate", "magic"} /\ outcome # MarkerNotFound
                => magic = PACK

\* a request whose marker was overwritten has failed with MarkerNotFound
C8_Witness ==
    /\ Transforming /\ pc = "done"
    /\ given.damage.kind = "nomarker"
    /\ outcome = MarkerNotFound

Truncated == Transforming /\ given.damage.kind = "cut"

TruncationErrors == {"struct.error", "TypeError", "zlib.error"}

\* the output buffer holds num_objects objects between header and trailer
OutputIsComplete ==
    LET r == ReadObjects(modified_packfile, 12, num_objects) IN
    /\ r.ok
    /\ r.end = Len(modified_packfile) - DigestLen
    /\ Slice(modified_packfile, 8, 12) = PackU32(num_objects)

\* C9 as claimed: a request that ends before all its objects fails with a
\* truncation error and returns nothing, and a call that returns returns as
\* many objects as the header of its output declares.
C9_TruncationError ==
    /\ (Truncated /\ pc = "done") => outcome \in TruncationErrors /\ result = None
    /\ (Transforming /\ outcome = "ok") => OutputIsComplete

\* C9, amended: a request that ends before all its objects fails and returns
\* nothing, with struct.error, TypeError or zlib.error, or else with the
\* UnicodeDecodeError of a commit that lies whole before the end and is not
\* UTF-8; and a call that returns returns as many objects as the header of its
\* output declares.
C9_TruncationAborts ==
    /\ (Truncated /\ pc = "done") =>
        /\ result = None
        /\ \/ outcome \in TruncationErrors
           \/ /\ outcome = "UnicodeDecodeError"
              /\ 12 + ObjectsLen(given.objects, loop_i + 1) <= given.damage.keep
              /\ given.objects[loop_i + 1].type = 1
              /\ ~utf8_decode(given.objects[loop_i + 1].payload).ok
    /\ (Transforming /\ outcome = "ok") => OutputIsComplete

\* a request cut inside the body of its only object has failed in zlib
C9_Witness ==
    /\ Truncated /\ pc = "done"
    /\ Len(given.objects) = 1
    /\ outcome = "zlib.error"
    /\ result = None

\* C10: the header of every emitted object declares the length of the payload
\* emitted with it and carries the type of the input object, whatever size the
\* input header declared.
C10_HeaderMatchesPayload ==
    Transforming =>
        /\ Emitted.ok
        /\ \A k \in 1..loop_i :
            /\ Emitted.objects[k].size = Len(Emitted.objects[k].payload)
            /\ Emitted.objects[k].type = given.objects[k].type

\* an object whose header declared a wrong size was rewritten to another
\* length and emitted
C10_Witness ==
    /\ Transforming /\ loop_i = 1
    /\ given.objects[1].declared # Len(given.objects[1].payload)
    /\ Len(Emitted.objects[1].payload) # Len(given.objects[1].payload)
    /\ Emitted.objects[1].size # given.objects[1].declared

====
